---- MODULE Spec2Model ----
(***************************************************************************)
(* Script-to-timeline compiler, playback clock and EDL export of the       *)
(* assembly view (src/components/AssemblyPhase.tsx).                       *)
(*                                                                         *)
(* Conventions of the model                                                *)
(*  - A JavaScript string the code inspects character by character (beat   *)
(*    types, labels, timecodes, the project title) is a sequence of        *)
(*    one-character strings; enum values (track and source types) are      *)
(*    TLA+ strings.                                                        *)
(*  - A JavaScript number that holds seconds is carried as an integer      *)
(*    number of milliseconds (10 s = 10000), so that the clock's           *)
(*    (time - start) / 1000 and fractional durations such as 12.5 s are    *)
(*    exact.  Wall-clock times are milliseconds as in the code.            *)
(*  - An optional property of a JavaScript object is a record field that   *)
(*    may be missing from the record's DOMAIN.                             *)
(***************************************************************************)
EXTENDS Integers, Sequences, FiniteSets, TLC

\* Milliseconds per second: the divisor of animate's (time - start) / 1000.
MsPerSecond == 1000

\* ------------------------------------------------------------------------
\* Bounds of the model
\* ------------------------------------------------------------------------

\* Largest number of beats of a script drawn by InitCompile.
MaxBeats == 2

\* Largest number of mounts of the assembly view (each mount starts a load).
MaxMounts == 2

\* Largest number of createShot / deleteShot / GET requests the store fails.
MaxFailures == 1

\* Largest number of wall-clock advances of the playback specification.
MaxAdvances == 2

\* Largest number of frame callbacks pending at once.
MaxPending == 2

\* Largest number of presses of the skip button.
MaxSkips == 2

\* Largest number of timeline items the store holds before the first load.
MaxStored == 2

\* Largest frame count among the consecutive times the codec is given.
MaxFrameCount == 100

\* ------------------------------------------------------------------------
\* JavaScript helpers
\* ------------------------------------------------------------------------

Has(r, f) == f \in DOMAIN r

\* o.f || d for a numeric property: a missing value and 0 are falsy.
NumOr(r, f, d) == IF Has(r, f) /\ r[f] # 0 THEN r[f] ELSE d

\* o.f || d for a list property.
ListOr(r, f) == IF Has(r, f) THEN r[f] ELSE <<>>

\* a % b of JavaScript: the result takes the sign of the dividend.
JsMod(a, b) == IF a >= 0 THEN a % b ELSE -((-a) % b)

Max2(a, b) == IF a >= b THEN a ELSE b

Min2(a, b) == IF a <= b THEN a ELSE b

SeqMax(s) == CHOOSE x \in {s[i] : i \in 1..Len(s)} : \A j \in 1..Len(s) : s[j] <= x

UpperCase == <<"A","B","C","D","E","F","G","H","I","J","K","L","M",
               "N","O","P","Q","R","S","T","U","V","W","X","Y","Z">>

LowerCase == <<"a","b","c","d","e","f","g","h","i","j","k","l","m",
               "n","o","p","q","r","s","t","u","v","w","x","y","z">>

ToLowerChar(c) ==
    IF \E i \in 1..26 : UpperCase[i] = c
    THEN LowerCase[CHOOSE i \in 1..26 : UpperCase[i] = c]
    ELSE c

\* A variant that compares the type as written.
ToLowerCase_AsWritten(s) == s

\* String.prototype.toLowerCase
ToLowerCase(s) == [i \in 1..Len(s) |-> ToLowerChar(s[i])]

DigitChar == <<"0","1","2","3","4","5","6","7","8","9">>

RECURSIVE NatToString(_)
NatToString(n) ==
    IF n < 10 THEN <<DigitChar[n + 1]>>
    ELSE NatToString(n \div 10) \o <<DigitChar[(n % 10) + 1]>>

\* Number.prototype.toString of an integer (-0 prints as "0").
NumToString(n) == IF n < 0 THEN <<"-">> \o NatToString(-n) ELSE NatToString(n)

RECURSIVE PadStart(_, _, _)
\* String.prototype.padStart with a one-character filler.
PadStart(s, width, ch) ==
    IF Len(s) >= width THEN s ELSE PadStart(<<ch>> \o s, width, ch)

\* String.prototype.slice(0, n)
Slice(s, n) == SubSeq(s, 1, Min2(n, Len(s)))

RECURSIVE SkipTag(_)
\* The rest of s after the match of [^>]*>? that follows a "<".
SkipTag(s) ==
    IF s = <<>> THEN <<>>
    ELSE IF Head(s) = ">" THEN Tail(s)
    ELSE SkipTag(Tail(s))

RECURSIVE StripHtml(_)
StripHtml(s) ==
    IF s = <<>> THEN <<>>
    ELSE IF Head(s) = "<" THEN StripHtml(SkipTag(Tail(s)))
    ELSE <<Head(s)>> \o StripHtml(Tail(s))

\* ------------------------------------------------------------------------
\* Track classifier
\* ------------------------------------------------------------------------

VoiceOverWords ==
    { <<"v", "o", "i", "c", "e", "_", "o", "v", "e", "r">>,
      <<"n", "a", "r", "r", "a", "t", "i", "o", "n">>,
      <<"n", "a", "r", "r", "a", "t", "o", "r">>,
      <<"v", "o">> }

ExpertWords ==
    { <<"e", "x", "p", "e", "r", "t">>,
      <<"i", "n", "t", "e", "r", "v", "i", "e", "w">>,
      <<"e", "x", "p", "e", "r", "t", "_", "i", "n", "t", "e", "r", "v", "i", "e", "w">>,
      <<"s", "o", "u", "n", "d", "b", "i", "t", "e">> }

ArchiveWords ==
    { <<"a", "r", "c", "h", "i", "v", "e">>,
      <<"b", "-", "r", "o", "l", "l">>,
      <<"b", "_", "r", "o", "l", "l">>,
      <<"b", "r", "o", "l", "l">>,
      <<"a", "r", "c", "h", "i", "v", "a", "l">>,
      <<"f", "o", "o", "t", "a", "g", "e">> }

GraphicsWords ==
    { <<"a", "i", "_", "v", "i", "s", "u", "a", "l">>,
      <<"t", "r", "a", "n", "s", "i", "t", "i", "o", "n">>,
      <<"t", "i", "t", "l", "e", "_", "c", "a", "r", "d">>,
      <<"g", "r", "a", "p", "h", "i", "c">>,
      <<"v", "i", "s", "u", "a", "l">> }

\* beatType?.toLowerCase() of a beat: Undefined when the beat has no type.
Undefined == <<"undefined">>

SwitchKey(beat) == IF Has(beat, "type") THEN ToLowerCase(beat.type) ELSE Undefined

\* The null of beatToTrackType's return type (no case returns it).
Null == "null"

\* A variant whose default case returns null, so that the beat is skipped.
beatToTrackType_NullDefault(beat) ==
    LET k == SwitchKey(beat) IN
    IF k \in VoiceOverWords THEN "audio"
    ELSE IF k \in ExpertWords THEN "expert"
    ELSE IF k \in ArchiveWords THEN "video"
    ELSE IF k \in GraphicsWords THEN "graphics"
    ELSE Null

beatToTrackType(beat) ==
    LET k == SwitchKey(beat) IN
    IF k \in VoiceOverWords THEN "audio"
    ELSE IF k \in ExpertWords THEN "expert"
    ELSE IF k \in ArchiveWords THEN "video"
    ELSE IF k \in GraphicsWords THEN "graphics"
    ELSE "video"

beatToSourceType(beat) ==
    LET k == SwitchKey(beat) IN
    IF k \in VoiceOverWords THEN "voice_over"
    ELSE IF k \in ExpertWords THEN "expert_interview"
    ELSE IF k \in ArchiveWords THEN "archive_clip"
    ELSE IF k \in GraphicsWords THEN "ai_generated"
    ELSE "archive_clip"

\* ------------------------------------------------------------------------
\* Timecode
\* ------------------------------------------------------------------------

FramesPerSecond == 24

\* A variant that writes whole seconds in the frames field.
formatTimecode_SecondsAsFrames(ms) ==
    LET s == JsMod(ms, 60 * MsPerSecond) \div MsPerSecond
    IN  <<"0", "0", ":", "0", "0", ":", "0", "0", ":">> \o PadStart(NumToString(s), 2, "0")

\* formatTimecode(seconds), seconds given in milliseconds.
formatTimecode(ms) ==
    LET h == ms \div (3600 * MsPerSecond)
        m == JsMod(ms, 3600 * MsPerSecond) \div (60 * MsPerSecond)
        s == JsMod(ms, 60 * MsPerSecond) \div MsPerSecond
        f == (JsMod(ms, MsPerSecond) * FramesPerSecond) \div MsPerSecond
    IN  PadStart(NumToString(h), 2, "0") \o <<":">> \o
        PadStart(NumToString(m), 2, "0") \o <<":">> \o
        PadStart(NumToString(s), 2, "0") \o <<":">> \o
        PadStart(NumToString(f), 2, "0")

\* A JavaScript number given to the codec: the double nearest n / per seconds,
\* per being 1000 (a time in milliseconds) or 24 (a time in frames).
Milliseconds(n) == [n |-> n, per |-> MsPerSecond]

Frames(n) == [n |-> n, per |-> FramesPerSecond]

RECURSIVE Pow2(_)
Pow2(e) == IF e = 0 THEN 1 ELSE 2 * Pow2(e - 1)

\* floor(log2(a / b)) for a, b > 0: the binary exponent of the double a / b.
FloorLog2(a, b) ==
    CHOOSE e \in -8..22 :
        IF e >= 0 THEN b * Pow2(e) <= a /\ a < b * Pow2(e + 1)
        ELSE b <= a * Pow2(-e) /\ a * Pow2(-e) < 2 * b

\* The double nearest k / 24 lies below k / 24.  k / 24 has the significand
\* of k / 3, whose binary fraction repeats 01 (k mod 3 = 1) or 10
\* (k mod 3 = 2); 53 bits are kept and round-to-nearest goes down when the
\* first dropped bit is 0.
RoundsDown(k) ==
    /\ k % 3 # 0
    /\ LET firstDropped == 52 - FloorLog2(k, 3) + 1
       IN  IF k % 3 = 1 THEN firstDropped % 2 = 1 ELSE firstDropped % 2 = 0

\* (seconds % 1) * 24 for such a k is r - 8 ulp(k / 24), r = k mod 24; the
\* product rounds to r itself when that is within half a step of r.
RoundsBack(k) ==
    LET r == k % 24
        j == CHOOSE i \in -1..4 : 2 * r > Pow2(i + 1) /\ r <= Pow2(i + 1)
    IN  FloorLog2(k, 24) <= j - 4

\* Math.floor((seconds % 1) * 24) for the double nearest k / 24.
FrameField(k) ==
    IF RoundsDown(k) /\ ~RoundsBack(k) THEN (k % 24) - 1 ELSE k % 24

\* formatTimecode(seconds) for the double nearest k / 24, k >= 0: the other
\* fields are those of the whole seconds.
formatTimecodeOfFrames(k) ==
    LET whole == k \div 24
    IN  PadStart(NumToString(whole \div 3600), 2, "0") \o <<":">> \o
        PadStart(NumToString((whole % 3600) \div 60), 2, "0") \o <<":">> \o
        PadStart(NumToString(whole % 60), 2, "0") \o <<":">> \o
        PadStart(NumToString(FrameField(k)), 2, "0")

\* formatTimecode of a number in either unit.
formatTimecodeOf(x) ==
    IF x.per = MsPerSecond THEN formatTimecode(x.n) ELSE formatTimecodeOfFrames(x.n)

\* ------------------------------------------------------------------------
\* Timeline compiler (the body of loadTimeline after both reads)
\* ------------------------------------------------------------------------

\* The fallback of beat.duration_seconds || 15, in seconds.
DefaultDuration == 15

trackColor(trackType) ==
    CASE trackType = "audio" -> "bg-blue-600/80"
      [] trackType = "expert" -> "bg-green-600/80"
      [] trackType = "video" -> "bg-yellow-600/80"
      [] trackType = "graphics" -> "bg-purple-600/80"
      [] trackType = "music" -> "bg-pink-600/80"
      [] trackType = "sfx" -> "bg-orange-600/80"
      [] OTHER -> "bg-gray-600/80"

ProjectId == "p1"

RECURSIVE ConcatAll(_)
ConcatAll(ss) == IF ss = <<>> THEN <<>> ELSE Head(ss) \o ConcatAll(Tail(ss))

\* (part.scenes || []).forEach(scene => (scene.beats || []).forEach(...))
PartBeats(part) ==
    LET scenes == ListOr(part, "scenes")
    IN  ConcatAll([i \in 1..Len(scenes) |-> ListOr(scenes[i], "beats")])

\* A variant that visits the parts from the last to the first.
BeatsInOrder_LastPartFirst(script) ==
    LET parts == ListOr(script, "parts")
    IN  ConcatAll([i \in 1..Len(parts) |-> PartBeats(parts[Len(parts) + 1 - i])])

\* The beats of a script in the order the three nested forEach loops visit them.
BeatsInOrder(script) ==
    LET parts == ListOr(script, "parts")
    IN  ConcatAll([i \in 1..Len(parts) |-> PartBeats(parts[i])])

\* const duration = beat.duration_seconds || 15
BeatDuration(beat) == NumOr(beat, "duration_seconds", DefaultDuration * MsPerSecond)

TypeText(beat) == IF Has(beat, "type") THEN beat.type ELSE Undefined

\* rawLabel of a beat.
BeatLabel(beat) ==
    LET content == StripHtml(IF Has(beat, "content") THEN beat.content ELSE <<>>)
    IN  IF Has(beat, "speaker") /\ beat.speaker # <<>>
        THEN beat.speaker \o <<":", " ">> \o Slice(content, 40)
        ELSE IF Slice(content, 50) # <<>> THEN Slice(content, 50)
        ELSE TypeText(beat) \o <<" ", "b", "e", "a", "t">>

\* The item pushed for one beat when the running cursor is at runningTime;
\* n is the number of items pushed before it (it only makes the client id unique).
BeatItem(beat, runningTime, n) ==
    LET duration == BeatDuration(beat)
        trackType == beatToTrackType(beat)
    IN  [ id |-> <<"tl", n + 1>>,
          project_id |-> ProjectId,
          track_type |-> trackType,
          track_index |-> 0,
          start_time |-> runningTime,
          end_time |-> runningTime + duration,
          duration |-> duration,
          source_type |-> beatToSourceType(beat),
          source_id |-> beat.id,
          label |-> BeatLabel(beat),
          color |-> trackColor(trackType) ]

RECURSIVE MainPass(_, _, _)
\* The main pass over the beats: the items pushed, given those pushed so far.
MainPass(beats, runningTime, acc) ==
    IF beats = <<>> THEN acc
    ELSE IF beatToTrackType(Head(beats)) = Null
         THEN MainPass(Tail(beats), runningTime, acc)
    ELSE MainPass(Tail(beats),
                  runningTime + BeatDuration(Head(beats)),
                  Append(acc, BeatItem(Head(beats), runningTime, Len(acc))))

RECURSIVE SumDurations(_)
\* runningTime after the main pass.
SumDurations(beats) ==
    IF beats = <<>> THEN 0
    ELSE (IF beatToTrackType(Head(beats)) = Null THEN 0 ELSE BeatDuration(Head(beats)))
         + SumDurations(Tail(beats))

\* shots.filter(s => s.source_type === 'voice_over' && !s.track_type)
VoShots(shots) ==
    SelectSeq(shots, LAMBDA s : Has(s, "source_type") /\ s.source_type = "voice_over"
                                 /\ ~Has(s, "track_type"))

VoLabel(vo) ==
    IF Has(vo, "text") /\ vo.text # <<>> THEN Slice(StripHtml(vo.text), 50)
    ELSE <<"V", "o", "i", "c", "e", " ", "O", "v", "e", "r">>

VoItem(vo, voTime, n) ==
    LET dur == NumOr(vo, "duration_seconds", DefaultDuration * MsPerSecond)
    IN  [ id |-> <<"tl-vo", n + 1>>,
          project_id |-> ProjectId,
          track_type |-> "audio",
          track_index |-> 0,
          start_time |-> voTime,
          end_time |-> voTime + dur,
          duration |-> dur,
          source_type |-> "voice_over",
          source_id |-> vo.id,
          label |-> VoLabel(vo),
          color |-> trackColor("audio") ]

RECURSIVE VoPass(_, _, _)
VoPass(voShots, voTime, acc) ==
    IF voShots = <<>> THEN acc
    ELSE VoPass(Tail(voShots),
                voTime + NumOr(Head(voShots), "duration_seconds", DefaultDuration * MsPerSecond),
                Append(acc, VoItem(Head(voShots), voTime, Len(acc))))

\* scripts.sort((a, b) => (b.version || 0) - (a.version || 0))[0]: the sort is
\* stable, so the first script of the largest version is taken.
LatestScript(scriptList) ==
    LET v(i) == NumOr(scriptList[i], "version", 0)
        best == CHOOSE i \in 1..Len(scriptList) :
                    /\ \A j \in 1..Len(scriptList) : v(j) <= v(i)
                    /\ \A j \in 1..(i - 1) : v(j) < v(i)
    IN  scriptList[best]

\* A variant whose voice-over pass starts its cursor at 0.
Compile_VoFromZero(scriptList, shots) ==
    LET beats == BeatsInOrder(LatestScript(scriptList))
        main == MainPass(beats, 0, <<>>)
    IN  VoPass(VoShots(shots), 0, main)

\* newItems of one load: the main pass over the latest script, then the
\* voice-over pass seeded with the main pass's final cursor.
Compile(scriptList, shots) ==
    LET beats == BeatsInOrder(LatestScript(scriptList))
        main == MainPass(beats, 0, <<>>)
    IN  VoPass(VoShots(shots), SumDurations(beats), main)

\* A variant that takes only the video items for the saved layout.
TimelineShots_VideoOnly(shots) ==
    SelectSeq(shots, LAMBDA s : Has(s, "track_type") /\ s.track_type = "video")

\* shots.filter(s => s.track_type)
TimelineShots(shots) == SelectSeq(shots, LAMBDA s : Has(s, "track_type"))

\* ------------------------------------------------------------------------
\* EDL export
\* ------------------------------------------------------------------------

ProjectTitle == <<"M", "y", " ", " ", "F", "i", "l", "m">>

IsSpace(c) == c \in {" ", "\t", "\n"}

RECURSIVE ReplaceSpaces(_)
\* title.replace(/\s+/g, '_')
ReplaceSpaces(s) ==
    IF s = <<>> THEN <<>>
    ELSE IF IsSpace(Head(s))
         THEN IF Len(s) > 1 /\ IsSpace(s[2]) THEN ReplaceSpaces(Tail(s))
              ELSE <<"_">> \o ReplaceSpaces(Tail(s))
    ELSE <<Head(s)>> \o ReplaceSpaces(Tail(s))

\* (a.start_time || 0) of the sort's comparator.
SortKey(item) == NumOr(item, "start_time", 0)

RECURSIVE InsertSorted(_, _)
\* x placed after every element whose key is not larger (a stable insertion).
InsertSorted(sorted, x) ==
    IF sorted = <<>> THEN <<x>>
    ELSE IF SortKey(Head(sorted)) <= SortKey(x)
         THEN <<Head(sorted)>> \o InsertSorted(Tail(sorted), x)
    ELSE <<x>> \o sorted

\* A variant that writes the items in list order.
SortByStart_Unsorted(list) == list

RECURSIVE SortByStart(_)
\* [...items].sort((a, b) => (a.start_time || 0) - (b.start_time || 0)):
\* Array.prototype.sort is stable.
SortByStart(list) ==
    IF list = <<>> THEN <<>>
    ELSE InsertSorted(SortByStart(SubSeq(list, 1, Len(list) - 1)), list[Len(list)])

Untitled == <<"U", "n", "t", "i", "t", "l", "e", "d">>

ZeroTimecode == <<"0", "0", ":", "0", "0", ":", "0", "0", ":", "0", "0">>

\* A variant whose record out is the duration instead of start + duration.
EdlRecord_RecOutIsDuration(item, idx) ==
    [ num |-> PadStart(NumToString(idx), 3, "0"),
      reel |-> "AX",
      trackCode |-> IF Has(item, "track_type") /\ item.track_type \in {"audio", "music", "sfx"}
                    THEN "A" ELSE "V",
      edit |-> "C",
      srcIn |-> formatTimecode(0),
      srcOut |-> formatTimecode(NumOr(item, "duration", 0)),
      recIn |-> formatTimecode(NumOr(item, "start_time", 0)),
      recOut |-> formatTimecode(NumOr(item, "duration", 0)),
      comment |-> <<"* FROM CLIP NAME: ",
                    IF Has(item, "label") /\ item.label # <<>> THEN item.label ELSE Untitled>> ]

\* A variant that takes only the audio track for an audio track.
EdlRecord_OnlyAudio(item, idx) ==
    [ num |-> PadStart(NumToString(idx), 3, "0"),
      reel |-> "AX",
      trackCode |-> IF Has(item, "track_type") /\ item.track_type = "audio"
                    THEN "A" ELSE "V",
      edit |-> "C",
      srcIn |-> formatTimecode(0),
      srcOut |-> formatTimecode(NumOr(item, "duration", 0)),
      recIn |-> formatTimecode(NumOr(item, "start_time", 0)),
      recOut |-> formatTimecode(NumOr(item, "start_time", 0) + NumOr(item, "duration", 0)),
      comment |-> <<"* FROM CLIP NAME: ",
                    IF Has(item, "label") /\ item.label # <<>> THEN item.label ELSE Untitled>> ]

\* A variant that writes the label as it is, without the 'Untitled' fallback.
EdlRecord_LabelAsIs(item, idx) ==
    [ num |-> PadStart(NumToString(idx), 3, "0"),
      reel |-> "AX",
      trackCode |-> IF Has(item, "track_type") /\ item.track_type \in {"audio", "music", "sfx"}
                    THEN "A" ELSE "V",
      edit |-> "C",
      srcIn |-> formatTimecode(0),
      srcOut |-> formatTimecode(NumOr(item, "duration", 0)),
      recIn |-> formatTimecode(NumOr(item, "start_time", 0)),
      recOut |-> formatTimecode(NumOr(item, "start_time", 0) + NumOr(item, "duration", 0)),
      comment |-> <<"* FROM CLIP NAME: ", ListOr(item, "label")>> ]

\* The two lines written for sorted[idx] (idx is 0-based in the code, 1-based here).
EdlRecord(item, idx) ==
    [ num |-> PadStart(NumToString(idx), 3, "0"),
      reel |-> "AX",
      trackCode |-> IF Has(item, "track_type") /\ item.track_type \in {"audio", "music", "sfx"}
                    THEN "A" ELSE "V",
      edit |-> "C",
      srcIn |-> formatTimecode(0),
      srcOut |-> formatTimecode(NumOr(item, "duration", 0)),
      recIn |-> formatTimecode(NumOr(item, "start_time", 0)),
      recOut |-> formatTimecode(NumOr(item, "start_time", 0) + NumOr(item, "duration", 0)),
      comment |-> <<"* FROM CLIP NAME: ",
                    IF Has(item, "label") /\ item.label # <<>> THEN item.label ELSE Untitled>> ]

\* The literal record written for an empty list.
EmptyRecord ==
    [ num |-> <<"0", "0", "1">>, reel |-> "AX", trackCode |-> "V", edit |-> "C",
      srcIn |-> ZeroTimecode, srcOut |-> ZeroTimecode,
      recIn |-> ZeroTimecode, recOut |-> ZeroTimecode,
      comment |-> <<"* EMPTY TIMELINE">> ]

\* A variant that writes nothing for an empty list.
EdlRecords_NoPlaceholder(list) ==
    LET sorted == SortByStart(list)
    IN  [i \in 1..Len(sorted) |-> EdlRecord(sorted[i], i)]

EdlRecords(list) ==
    LET sorted == SortByStart(list)
    IN  IF Len(sorted) = 0 THEN <<EmptyRecord>>
        ELSE [i \in 1..Len(sorted) |-> EdlRecord(sorted[i], i)]

\* The document exportEDL downloads, and its file name.
EdlDocument(list) ==
    [ title |-> ProjectTitle,
      fcm |-> "NON-DROP FRAME",
      records |-> EdlRecords(list),
      download |-> ReplaceSpaces(ProjectTitle) \o
                   <<"_", "t", "i", "m", "e", "l", "i", "n", "e", ".", "e", "d", "l">> ]

\* ------------------------------------------------------------------------
\* Playback limit
\* ------------------------------------------------------------------------

\* The + 30 of computedMax, the 300 of an empty timeline and the floor of 60,
\* in seconds.
TailPadding == 30

EmptyTimelineMax == 300

MinTimelineMax == 60

\* The + 10 of skipForward, in seconds.
SkipSeconds == 10

ItemEnd(item) == NumOr(item, "start_time", 0) + NumOr(item, "duration", 0)

computedMax(list) ==
    IF Len(list) > 0
    THEN SeqMax([i \in 1..Len(list) |-> ItemEnd(list[i])]) + TailPadding * MsPerSecond
    ELSE EmptyTimelineMax * MsPerSecond

\* maxDuration of a render whose item list is list.
maxDuration(list) == Max2(computedMax(list), MinTimelineMax * MsPerSecond)

\* ------------------------------------------------------------------------
\* State
\* ------------------------------------------------------------------------

VARIABLES
    scripts,         \* what getScriptsByProject returns for the project
    store,           \* the shot records the store holds for the project
    storeOrder,      \* the order in which the store lists its records
    mounted,         \* the mount of the assembly view that is on screen
    load,            \* per mount, the state of its loadTimeline call
    items,           \* the items state of the mounted view
    isLoading,       \* the isLoading state of the mounted view
    pendingDeletes,  \* ids whose deleteShot request is in flight
    failures,        \* requests the store has failed so far
    download,        \* the last document exportEDL downloaded (none: <<>>)
    exported,        \* history: the item list that export read
    layoutSaved,     \* history: some load saved its whole compiled layout
    isPlaying,       \* the isPlaying state
    currentTime,     \* the currentTime state, in milliseconds
    startTimeRef,    \* startTimeRef.current
    rafQueue,        \* the pending animate callbacks, oldest first: each is the
                     \* maxDuration of the render whose animate it is
    requestRefLive,  \* requestRef.current is the id of the newest pending callback
    now,             \* performance.now()
    advances,        \* wall-clock advances so far
    skips,           \* presses of the skip button so far
    limitSeen,       \* history: the largest maxDuration rendered since the mount
    codecArg,        \* the number a call of formatTimecode is given
    codecResult      \* what that call returned (no call yet: <<>>)

codecVars == <<codecArg, codecResult>>

loadVars == <<codecVars, scripts, store, storeOrder, mounted, load, items, isLoading, pendingDeletes,
              failures, download, exported, layoutSaved>>

clockVars == <<isPlaying, currentTime, startTimeRef, rafQueue, requestRefLive,
               now, advances, skips>>

vars == <<loadVars, clockVars, limitSeen>>

Mounts == 1..MaxMounts

\* A loadTimeline call that has not started.  rejected: its catch block ran
\* for a failed createShot; compiled: it derived items from the script;
\* afterSave and onPopulated are history: the call started after a layout had
\* been saved, and the store held a timeline item when the call compiled.
IdleLoad ==
    [ pc |-> "idle", shots |-> <<>>, newItems |-> <<>>, pending |-> {},
      rejected |-> FALSE, compiled |-> FALSE, afterSave |-> FALSE,
      onPopulated |-> FALSE ]

\* The place of a record id in the store's listing order: the voice-over
\* records of the recording step first, then the created records by load and
\* position.
IdRank(id) == IF id[1] = "vo" THEN id[2] ELSE 100 * id[2] + id[3]

RECURSIVE Ascending(_)
Ascending(S) ==
    IF S = {} THEN <<>>
    ELSE LET first == CHOOSE r \in S : \A q \in S : IdRank(r.id) <= IdRank(q.id)
         IN  <<first>> \o Ascending(S \ {first})

Reverse(q) == [i \in 1..Len(q) |-> q[Len(q) + 1 - i]]

\* getShotsByProject: the records in the store's listing order, which is the
\* same at every read (ascending or descending by id).
Listing(S) == IF storeOrder = "asc" THEN Ascending(S) ELSE Reverse(Ascending(S))

\* setItems(list) of the mounted view.
ItemsBecome(list) ==
    /\ items' = list
    /\ limitSeen' = Max2(limitSeen, maxDuration(list))

\* A state update by the load of mount m: React drops it once m is unmounted.
LoadSets(m, list) ==
    IF mounted = m THEN ItemsBecome(list) /\ isLoading' = FALSE
    ELSE UNCHANGED <<items, limitSeen, isLoading>>

LoadStopsLoading(m) ==
    /\ isLoading' = IF mounted = m THEN FALSE ELSE isLoading
    /\ UNCHANGED <<items, limitSeen>>

\* ------------------------------------------------------------------------
\* The external store (persistence API)
\* ------------------------------------------------------------------------

\* The id the store gives the record created for item i of mount m's load.
StoreId(m, i) == <<"shot", m, i>>

\* createShot: the store keeps the item's fields under an id of its own.
StoreCreate(records, item, sid) == records \union {[item EXCEPT !.id = sid]}

\* deleteShot
StoreDelete(records, sid) == {r \in records : r.id # sid}

\* ------------------------------------------------------------------------
\* loadTimeline
\* ------------------------------------------------------------------------

\* A variant that has lost the check for existing items: every load compiles.
AlreadyPopulated_Never(shots) == FALSE

\* timelineShots.length > 0
AlreadyPopulated(shots) == Len(TimelineShots(shots)) > 0

\* getShotsByProject answers; the load runs up to its next await.
GetShotsOk(m) ==
    /\ load[m].pc = "getShots"
    /\ LET shots == Listing(store)
       IN
         IF AlreadyPopulated(shots)
         THEN /\ load' = [load EXCEPT ![m] = [@ EXCEPT !.pc = "done", !.shots = shots,
                                                       !.afterSave = layoutSaved]]
              /\ LoadSets(m, TimelineShots(shots))
         ELSE /\ load' = [load EXCEPT ![m] = [@ EXCEPT !.pc = "getScripts", !.shots = shots,
                                                       !.afterSave = layoutSaved]]
              /\ UNCHANGED <<items, limitSeen, isLoading>>
    /\ UNCHANGED <<codecVars, scripts, storeOrder, store, mounted, pendingDeletes, failures, download,
                   exported, layoutSaved, clockVars>>

\* getScriptsByProject answers; the load compiles and issues every createShot.
GetScriptsOk(m) ==
    /\ load[m].pc = "getScripts"
    /\ IF Len(scripts) = 0
       THEN /\ load' = [load EXCEPT ![m].pc = "done"]
            /\ LoadStopsLoading(m)
       ELSE LET newItems == Compile(scripts, load[m].shots)
                populated == \E r \in store : Has(r, "track_type")
            IN  IF Len(newItems) > 0
                THEN /\ load' = [load EXCEPT ![m] = [@ EXCEPT !.pc = "saving",
                                                              !.newItems = newItems,
                                                              !.pending = 1..Len(newItems),
                                                              !.compiled = TRUE,
                                                              !.onPopulated = populated]]
                     /\ UNCHANGED <<items, limitSeen, isLoading>>
                ELSE /\ load' = [load EXCEPT ![m] = [@ EXCEPT !.pc = "done",
                                                              !.compiled = TRUE,
                                                              !.onPopulated = populated]]
                     /\ LoadStopsLoading(m)
    /\ UNCHANGED <<codecVars, scripts, storeOrder, store, mounted, pendingDeletes, failures, download,
                   exported, layoutSaved, clockVars>>

\* One of the two reads fails: the catch block logs it and loading ends.
LoadReadFails(m) ==
    /\ load[m].pc \in {"getShots", "getScripts"}
    /\ failures < MaxFailures
    /\ failures' = failures + 1
    /\ load' = [load EXCEPT ![m].pc = "done"]
    /\ LoadStopsLoading(m)
    /\ UNCHANGED <<codecVars, scripts, storeOrder, store, mounted, pendingDeletes, download, exported, layoutSaved,
                   clockVars>>

\* saved.map((s, i) => ({ ...newItems[i], id: s.id }))
SavedItems(m) ==
    [i \in 1..Len(load[m].newItems) |-> [load[m].newItems[i] EXCEPT !.id = StoreId(m, i)]]

\* The store creates the record of createShot(newItems[i]); when it was the
\* last answer and none failed, Promise.all resolves and the items are set.
CreateShotOk(m, i) ==
    /\ i \in load[m].pending
    /\ store' = StoreCreate(store, load[m].newItems[i], StoreId(m, i))
    /\ IF load[m].pending = {i} /\ ~load[m].rejected
       THEN /\ load' = [load EXCEPT ![m] = [@ EXCEPT !.pc = "done", !.pending = {}]]
            /\ LoadSets(m, SavedItems(m))
            /\ layoutSaved' = TRUE
       ELSE /\ load' = [load EXCEPT ![m].pending = @ \ {i}]
            /\ UNCHANGED <<items, limitSeen, isLoading, layoutSaved>>
    /\ UNCHANGED <<codecVars, scripts, storeOrder, mounted, pendingDeletes, failures, download, exported, clockVars>>

\* createShot(newItems[i]) fails: the first failure rejects Promise.all and the
\* catch block ends the load without setting the items.
CreateShotFails(m, i) ==
    /\ i \in load[m].pending
    /\ failures < MaxFailures
    /\ failures' = failures + 1
    /\ load' = [load EXCEPT ![m] = [@ EXCEPT !.pc = "done", !.pending = @ \ {i},
                                             !.rejected = TRUE]]
    /\ IF load[m].rejected THEN UNCHANGED <<items, limitSeen, isLoading>>
       ELSE LoadStopsLoading(m)
    /\ UNCHANGED <<codecVars, scripts, storeOrder, store, mounted, pendingDeletes, download, exported, layoutSaved,
                   clockVars>>

\* ------------------------------------------------------------------------
\* The view: remove button, export button, mounting
\* ------------------------------------------------------------------------

\* A variant that closes the gap: the items after the removed one move up
\* by its duration.
WithoutItem_Ripple(list, id) ==
    LET kept == SelectSeq(list, LAMBDA it : it.id # id)
        gone == SelectSeq(list, LAMBDA it : it.id = id)
    IN  [i \in 1..Len(kept) |->
            IF gone # <<>> /\ kept[i].start_time > gone[1].start_time
            THEN [kept[i] EXCEPT !.start_time = @ - gone[1].duration,
                                 !.end_time = @ - gone[1].duration]
            ELSE kept[i]]

\* prev.filter(i => i.id !== item.id)
WithoutItem(list, id) == SelectSeq(list, LAMBDA it : it.id # id)

\* The remove button of items[k]: the list is filtered at once and deleteShot
\* is sent without being awaited.
DeleteItem(k) ==
    /\ k \in 1..Len(items)
    /\ ItemsBecome(WithoutItem(items, items[k].id))
    /\ pendingDeletes' = pendingDeletes \union {items[k].id}
    /\ UNCHANGED <<codecVars, scripts, storeOrder, store, mounted, load, isLoading, failures, download,
                   exported, layoutSaved, clockVars>>

DeleteShotOk(sid) ==
    /\ sid \in pendingDeletes
    /\ pendingDeletes' = pendingDeletes \ {sid}
    /\ store' = StoreDelete(store, sid)
    /\ UNCHANGED <<codecVars, scripts, storeOrder, mounted, load, items, isLoading, failures, download,
                   exported, layoutSaved, clockVars, limitSeen>>

\* deleteShot fails: .catch(console.error)
DeleteShotFails(sid) ==
    /\ sid \in pendingDeletes
    /\ failures < MaxFailures
    /\ failures' = failures + 1
    /\ pendingDeletes' = pendingDeletes \ {sid}
    /\ UNCHANGED <<codecVars, scripts, storeOrder, store, mounted, load, items, isLoading, download,
                   exported, layoutSaved, clockVars, limitSeen>>

\* The export button.
exportEDL ==
    /\ download' = <<EdlDocument(items)>>
    /\ exported' = items
    /\ UNCHANGED <<codecVars, scripts, storeOrder, store, mounted, load, items, isLoading, pendingDeletes,
                   failures, layoutSaved, clockVars, limitSeen>>

\* The view is unmounted and mounted again (the phase is left and re-entered):
\* a fresh component with its initial state starts a new load; the load of the
\* old mount keeps running.
Remount ==
    /\ mounted < MaxMounts
    /\ mounted' = mounted + 1
    /\ load' = [load EXCEPT ![mounted + 1].pc = "getShots"]
    /\ items' = <<>>
    /\ isLoading' = TRUE
    /\ isPlaying' = FALSE
    /\ currentTime' = 0
    /\ startTimeRef' = 0
    /\ rafQueue' = <<>>
    /\ requestRefLive' = FALSE
    /\ limitSeen' = maxDuration(<<>>)
    /\ UNCHANGED <<codecVars, scripts, storeOrder, store, pendingDeletes, failures, download,
                   exported, layoutSaved, now, advances, skips>>

\* ------------------------------------------------------------------------
\* Playback clock
\* ------------------------------------------------------------------------

\* The wall-clock steps the model takes, in milliseconds.
TimeSteps == {50 * MsPerSecond, 200 * MsPerSecond}

\* Time passes.
Advance(d) ==
    /\ advances < MaxAdvances
    /\ advances' = advances + 1
    /\ now' = now + d
    /\ UNCHANGED <<loadVars, isPlaying, currentTime, startTimeRef, rafQueue,
                   requestRefLive, skips, limitSeen>>

\* cancelAnimationFrame(requestRef.current): the newest callback, if pending.
CancelNewest(queue, live) == IF live THEN SubSeq(queue, 1, Len(queue) - 1) ELSE queue

\* The play / pause button.
togglePlay ==
    /\ IF isPlaying
       THEN /\ isPlaying' = FALSE
            /\ rafQueue' = CancelNewest(rafQueue, requestRefLive)
            /\ requestRefLive' = FALSE
            /\ UNCHANGED startTimeRef
       ELSE /\ Len(rafQueue) < MaxPending
            /\ isPlaying' = TRUE
            /\ startTimeRef' = now - currentTime
            /\ rafQueue' = Append(rafQueue, maxDuration(items))
            /\ requestRefLive' = TRUE
    /\ UNCHANGED <<loadVars, currentTime, now, advances, skips, limitSeen>>

\* elapsed of animate(time), in milliseconds.
Elapsed(time) == time - startTimeRef

\* A variant that already stops the clock on reaching the limit.
PastEnd_AtLimit(elapsed, limit) == elapsed >= limit

\* elapsed > maxDuration, for the maxDuration the callback closed over.
PastEnd(elapsed, limit) == elapsed > limit

\* A variant that stops the clock without clamping.
EndTime_Unclamped(elapsed, limit) == elapsed

\* setCurrentTime(maxDuration) of the stopping frame.
EndTime(elapsed, limit) == limit

\* animate(time) of the oldest pending callback.
animateAt(time) ==
    /\ rafQueue # <<>>
    /\ LET limit == Head(rafQueue)
           elapsed == Elapsed(time)
       IN  IF PastEnd(elapsed, limit)
           THEN /\ isPlaying' = FALSE
                /\ currentTime' = EndTime(elapsed, limit)
                /\ rafQueue' = Tail(rafQueue)
                /\ requestRefLive' = (requestRefLive /\ Len(rafQueue) > 1)
           ELSE /\ currentTime' = elapsed
                /\ rafQueue' = Append(Tail(rafQueue), limit)
                /\ requestRefLive' = TRUE
                /\ UNCHANGED isPlaying
    /\ UNCHANGED <<loadVars, startTimeRef, advances, skips, limitSeen>>

\* The frame scheduler runs the oldest pending animate callback.
animate == animateAt(now) /\ UNCHANGED now

\* The frame scheduler delivers the next frame d milliseconds later.
NextFrame(d) == now' = now + d /\ animateAt(now + d)

\* A variant that skips without looking at the limit.
SkipTarget_Unclamped(elapsed, limit) == elapsed + SkipSeconds * MsPerSecond

\* Math.min(currentTime + 10, maxDuration)
SkipTarget(elapsed, limit) == Min2(elapsed + SkipSeconds * MsPerSecond, limit)

\* The skip button.
skipForward ==
    /\ skips < MaxSkips
    /\ skips' = skips + 1
    /\ LET next == SkipTarget(currentTime, maxDuration(items))
       IN  /\ currentTime' = next
           /\ startTimeRef' = IF isPlaying THEN now - next ELSE startTimeRef
    /\ UNCHANGED <<loadVars, isPlaying, rafQueue, requestRefLive, now, advances,
                   limitSeen>>

\* The rewind button: setCurrentTime(0); setIsPlaying(false).
Rewind ==
    /\ currentTime' = 0
    /\ isPlaying' = FALSE
    /\ UNCHANGED <<loadVars, startTimeRef, rafQueue, requestRefLive, now, advances,
                   skips, limitSeen>>

\* ------------------------------------------------------------------------
\* Inputs
\* ------------------------------------------------------------------------

\* The beats scripts are drawn from (their ids are given by position).
BeatShapes ==
    { [type |-> <<"v", "o", "i", "c", "e", "_", "o", "v", "e", "r">>,
       duration_seconds |-> 10 * MsPerSecond],
      [type |-> <<"a", "r", "c", "h", "i", "v", "e">>,
       duration_seconds |-> 20 * MsPerSecond],
      [type |-> <<"B", "-", "R", "O", "L", "L">>,
       content |-> <<"<", "b", ">", "S", "e", "a", "<", "/", "b", ">">>],
      [type |-> <<"I", "n", "t", "e", "r", "v", "i", "e", "w">>,
       speaker |-> <<"A", "l">>, content |-> <<"H", "i">>, duration_seconds |-> 0],
      [content |-> <<>>, duration_seconds |-> -5 * MsPerSecond] }

WithId(shape, i) == [f \in DOMAIN shape \union {"id"} |->
                        IF f = "id" THEN i ELSE shape[f]]

Breaks == {"beat", "scene", "part"}

\* The scenes of the beats bs when brk[i] says what starts after beat i.
RECURSIVE ScenesOf(_, _, _)
ScenesOf(bs, brk, i) ==
    IF i > Len(bs) THEN <<>>
    ELSE LET rest == ScenesOf(bs, brk, i + 1)
         IN  IF i = Len(bs) \/ brk[i] # "beat"
             THEN <<[beats |-> <<bs[i]>>, last |-> (i = Len(bs) \/ brk[i] = "part")]>> \o rest
             ELSE <<[rest[1] EXCEPT !.beats = <<bs[i]>> \o @]>> \o Tail(rest)

RECURSIVE PartsOf(_)
PartsOf(scenes) ==
    IF scenes = <<>> THEN <<>>
    ELSE LET rest == PartsOf(Tail(scenes))
             scene == [beats |-> Head(scenes).beats]
         IN  IF Head(scenes).last
             THEN <<[scenes |-> <<scene>>]>> \o rest
             ELSE <<[rest[1] EXCEPT !.scenes = <<scene>> \o @]>> \o Tail(rest)

\* Parts and scenes that hold no beat: a part without scenes, a scene without
\* beats, an empty list of each.
Ragged(parts) ==
    <<[title |-> "empty part"]>> \o parts \o
    <<[scenes |-> <<[title |-> "empty scene"], [beats |-> <<>>]>>], [scenes |-> <<>>]>>

\* An older script of one beat, listed before the current one.
OlderScript ==
    [version |-> 1,
     parts |-> <<[scenes |-> <<[beats |-> <<[id |-> 9, type |-> <<"v", "o">>,
                                             duration_seconds |-> 7 * MsPerSecond]>>]>>]>>]

\* The script lists of n beats.
ScriptListsOf(n) ==
    { IF variant = "older"
      THEN <<OlderScript, [version |-> 2, parts |-> PartsOf(ScenesOf(bs, brk, 1))]>>
      ELSE IF variant = "ragged"
      THEN <<[version |-> 2, parts |-> Ragged(PartsOf(ScenesOf(bs, brk, 1)))]>>
      ELSE <<[version |-> 2, parts |-> PartsOf(ScenesOf(bs, brk, 1))]>> :
        bs \in { [i \in 1..n |-> WithId(sh[i], i)] : sh \in [1..n -> BeatShapes] },
        brk \in [1..(n - 1) -> Breaks],
        variant \in {"plain", "ragged", "older"} }

\* No script at all, a script without a parts property, and the scripts of up
\* to MaxBeats beats.
CompileScriptLists ==
    {<<>>, <<[version |-> 1]>>} \union UNION { ScriptListsOf(n) : n \in 0..MaxBeats }

\* Voice-over records of the recording step (no track_type).
VoShotA == [id |-> <<"vo", 1>>, source_type |-> "voice_over",
            duration_seconds |-> 12500, text |-> <<"O", "n", "e">>]

VoShotB == [id |-> <<"vo", 2>>, source_type |-> "voice_over"]

\* The script of the concrete scenario: one part, one scene, a 10 s voice_over
\* beat then a 20 s archive beat.
ScenarioScript ==
    [version |-> 1,
     parts |-> <<[scenes |-> <<[beats |-> <<
        [id |-> 1, type |-> <<"v", "o", "i", "c", "e", "_", "o", "v", "e", "r">>,
         duration_seconds |-> 10 * MsPerSecond],
        [id |-> 2, type |-> <<"a", "r", "c", "h", "i", "v", "e">>,
         duration_seconds |-> 20 * MsPerSecond] >>]>>]>>]

\* A 20 s beat then a 70 s beat: a timeline that ends at 90 s.
ClockScript ==
    [version |-> 1,
     parts |-> <<[scenes |-> <<[beats |-> <<
        [id |-> 1, type |-> <<"v", "o">>, duration_seconds |-> 20 * MsPerSecond],
        [id |-> 2, type |-> <<"f", "o", "o", "t", "a", "g", "e">>,
         duration_seconds |-> 70 * MsPerSecond] >>]>>]>>]

LoadScriptLists == {<<>>, <<ScenarioScript>>}

\* ------------------------------------------------------------------------
\* Specifications
\* ------------------------------------------------------------------------

\* The state after the first render of a freshly mounted view, its load started.
InitView ==
    /\ mounted = 1
    /\ load = [m \in Mounts |-> IF m = 1 THEN [IdleLoad EXCEPT !.pc = "getShots"]
                                ELSE IdleLoad]
    /\ items = <<>>
    /\ isLoading = TRUE
    /\ pendingDeletes = {}
    /\ failures = 0
    /\ download = <<>>
    /\ exported = <<>>
    /\ layoutSaved = FALSE
    /\ isPlaying = FALSE
    /\ currentTime = 0
    /\ startTimeRef = 0
    /\ rafQueue = <<>>
    /\ requestRefLive = FALSE
    /\ now = 0
    /\ advances = 0
    /\ skips = 0
    /\ limitSeen = maxDuration(<<>>)
    /\ codecResult = <<>>

\* Compiler and exporter over every script: one mount, a store that answers.
InitCompile ==
    /\ scripts \in CompileScriptLists
    /\ \/ store = {} /\ storeOrder = "asc"
       \/ store = {VoShotA, VoShotB} /\ storeOrder \in {"asc", "desc"}
    /\ InitView
    /\ codecArg = Milliseconds(0)

\* The store answers the createShot requests of a load in the order they were
\* issued.
NextCompile ==
    \/ \E m \in Mounts : GetShotsOk(m)
    \/ \E m \in Mounts : GetScriptsOk(m)
    \/ \E m \in Mounts : \E i \in load[m].pending :
          (\A j \in load[m].pending : i <= j) /\ CreateShotOk(m, i)
    \/ exportEDL

SpecCompile == InitCompile /\ [][NextCompile]_vars

\* Loads, remounts, deletions and failing requests.
InitLoad ==
    /\ scripts \in LoadScriptLists
    /\ store = {}
    /\ storeOrder \in {"asc", "desc"}
    /\ InitView
    /\ codecArg = Milliseconds(0)

NextLoad ==
    \/ \E m \in Mounts : GetShotsOk(m)
    \/ \E m \in Mounts : GetScriptsOk(m)
    \/ \E m \in Mounts : LoadReadFails(m)
    \/ \E m \in Mounts : \E i \in load[m].pending : CreateShotOk(m, i)
    \/ \E m \in Mounts : \E i \in load[m].pending : CreateShotFails(m, i)
    \/ \E k \in 1..Len(items) : DeleteItem(k)
    \/ \E sid \in pendingDeletes : DeleteShotOk(sid)
    \/ \E sid \in pendingDeletes : DeleteShotFails(sid)
    \/ exportEDL
    \/ Remount

Spec == InitLoad /\ [][NextLoad]_vars

\* No loadTimeline call is running and no createShot is unanswered.
Settled == \A m \in Mounts : load[m].pc \in {"idle", "done"} /\ load[m].pending = {}

\* Loads one after the other, with requests that can fail: the view is
\* mounted again only when the load before has come to its end.
NextSave ==
    \/ \E m \in Mounts : GetShotsOk(m)
    \/ \E m \in Mounts : GetScriptsOk(m)
    \/ \E m \in Mounts : LoadReadFails(m)
    \/ \E m \in Mounts : \E i \in load[m].pending : CreateShotOk(m, i)
    \/ \E m \in Mounts : \E i \in load[m].pending : CreateShotFails(m, i)
    \/ exportEDL
    \/ Settled /\ Remount

SpecSave == InitLoad /\ [][NextSave]_vars

\* Beat types: every word of the classifier and words outside it (the empty
\* string among them), written in lower case, in upper case and capitalised.
TypeWords ==
    VoiceOverWords \union ExpertWords \union ArchiveWords \union GraphicsWords
       \union { <<"t", "i", "t", "l", "e">>, <<"m", "u", "s", "i", "c">>, <<>> }

ToUpperChar(c) ==
    IF \E i \in 1..26 : LowerCase[i] = c
    THEN UpperCase[CHOOSE i \in 1..26 : LowerCase[i] = c]
    ELSE c

Cased(word, how) ==
    [i \in 1..Len(word) |->
        IF how = "upper" \/ (how = "capital" /\ i = 1) THEN ToUpperChar(word[i])
        ELSE word[i]]

TypeStrings == { Cased(w, how) : w \in TypeWords, how \in {"lower", "upper", "capital"} }

\* A first beat of any type, or of none, with or without a duration, and a
\* 10 s voice_over beat after it.
ClassifyScripts ==
    { <<[version |-> 1,
         parts |-> <<[scenes |-> <<[beats |-> <<first,
            [id |-> 2, type |-> <<"v", "o", "i", "c", "e", "_", "o", "v", "e", "r">>,
             duration_seconds |-> 10 * MsPerSecond]>>]>>]>>]>> :
        first \in { [id |-> 1, type |-> t, duration_seconds |-> 20 * MsPerSecond] :
                        t \in TypeStrings }
                 \union { [id |-> 1, type |-> t] : t \in TypeStrings }
                 \union { [id |-> 1], [id |-> 1, duration_seconds |-> 20 * MsPerSecond] } }

\* The classifier over every beat type.
InitClassify ==
    /\ scripts \in ClassifyScripts
    /\ store = {}
    /\ storeOrder = "asc"
    /\ InitView
    /\ codecArg = Milliseconds(0)

SpecClassify == InitClassify /\ [][NextCompile]_vars

\* The numbers the codec is given: every time of up to MaxFrameCount frames,
\* times late in the day, times on the millisecond grid, a negative time.
CodecArgs ==
    { Frames(k) : k \in 0..MaxFrameCount }
       \union { Frames(k) : k \in {3600 * 24, 3600 * 24 + 1, 3600 * 24 + 2, 3725 * 24 + 13,
                                   86399 * 24 + 22, 86399 * 24 + 23} }
       \union { Milliseconds(n) : n \in {0, 40, 125, 999, 1000, 12500, 59999, 60000,
                                         3599999, 3600000, 86399999} }
       \union { Milliseconds(-5 * MsPerSecond), Milliseconds(-1) }

\* A call of formatTimecode (by exportEDL for a time of an item, by the
\* render for the time display).
formatCall ==
    /\ codecResult = <<>>
    /\ codecResult' = <<formatTimecodeOf(codecArg)>>
    /\ UNCHANGED <<codecArg, scripts, store, storeOrder, mounted, load, items, isLoading,
                   pendingDeletes, failures, download, exported, layoutSaved, clockVars,
                   limitSeen>>

\* The codec over the numbers it can be given.
InitCodec ==
    /\ scripts = <<>>
    /\ store = {}
    /\ storeOrder = "asc"
    /\ codecArg \in CodecArgs
    /\ InitView

NextCodec == formatCall

SpecCodec == InitCodec /\ [][NextCodec]_vars

\* The track types a stored timeline item can carry: the six tracks of
\* TimelineItem and a value outside them.
StoredTrackTypes == {"audio", "music", "sfx", "video", "expert", "graphics", "overlay"}

StoredStarts == {0, 5 * MsPerSecond}

\* A timeline item saved earlier (by an earlier session or another client).
StoredItem(i, trackType, start) ==
    [ id |-> <<"shot", 0, i>>,
      project_id |-> ProjectId,
      track_type |-> trackType,
      track_index |-> 0,
      start_time |-> start,
      end_time |-> start + 5 * MsPerSecond,
      duration |-> 5 * MsPerSecond,
      source_type |-> "archive_clip",
      label |-> IF i = 1 THEN <<"C", "l", "i", "p">> ELSE <<>>,
      color |-> trackColor(trackType) ]

StoredLayouts ==
    UNION { { {StoredItem(i, tt[i], st[i]) : i \in 1..n} :
                tt \in [1..n -> StoredTrackTypes], st \in [1..n -> StoredStarts] } :
            n \in 0..MaxStored }

\* Export of a layout the store already holds.
InitExport ==
    /\ scripts = <<>>
    /\ store \in StoredLayouts
    /\ storeOrder \in {"asc", "desc"}
    /\ InitView
    /\ codecArg = Milliseconds(0)

NextExport ==
    \/ \E m \in Mounts : GetShotsOk(m)
    \/ \E m \in Mounts : GetScriptsOk(m)
    \/ \E k \in 1..Len(items) : DeleteItem(k)
    \/ \E sid \in pendingDeletes : DeleteShotOk(sid)
    \/ exportEDL

SpecExport == InitExport /\ [][NextExport]_vars

\* Record r without the fields in missing.
Without(r, missing) == [f \in DOMAIN r \ missing |-> r[f]]

\* The fields of a timeline item exportEDL reads with a fallback.
OptionalFields == {"start_time", "duration", "label"}

\* A saved timeline item that lacks some of those fields: the first a video
\* clip at 5 s, the others audio clips at 2 s.
MalformedItem(i, missing) ==
    Without([ id |-> <<"shot", 0, i>>,
              project_id |-> ProjectId,
              track_type |-> IF i = 1 THEN "video" ELSE "audio",
              track_index |-> 0,
              start_time |-> IF i = 1 THEN 5 * MsPerSecond ELSE 2 * MsPerSecond,
              duration |-> 3 * MsPerSecond + 500,
              label |-> <<"C", "l", "i", "p">> ],
            missing)

MalformedLayouts ==
    UNION { { {MalformedItem(i, miss[i]) : i \in 1..n} :
                miss \in [1..n -> SUBSET OptionalFields] } :
            n \in 0..MaxStored }

\* Export of a layout whose items lack fields.
InitMalformed ==
    /\ scripts = <<>>
    /\ store \in MalformedLayouts
    /\ storeOrder \in {"asc", "desc"}
    /\ InitView
    /\ codecArg = Milliseconds(0)

SpecMalformed == InitMalformed /\ [][NextExport]_vars

\* The playback clock over a timeline that loads and loses items.
InitClock ==
    /\ scripts = <<ClockScript>>
    /\ store = {}
    /\ storeOrder = "asc"
    /\ InitView
    /\ codecArg = Milliseconds(0)

NextClock ==
    \/ \E m \in Mounts : GetShotsOk(m)
    \/ \E m \in Mounts : GetScriptsOk(m)
    \/ \E m \in Mounts : \E i \in load[m].pending : CreateShotOk(m, i)
    \/ \E k \in 1..Len(items) : DeleteItem(k)
    \/ \E sid \in pendingDeletes : DeleteShotOk(sid)
    \/ \E d \in TimeSteps : Advance(d)
    \/ togglePlay
    \/ animate
    \/ skipForward
    \/ Rewind

SpecClock == InitClock /\ [][NextClock]_vars

\* Uninterrupted playback: play is pressed once, from the start, and frames
\* follow with advancing wall time while the timeline loads.
NextRun ==
    \/ \E m \in Mounts : GetShotsOk(m)
    \/ \E m \in Mounts : GetScriptsOk(m)
    \/ \E m \in Mounts : \E i \in load[m].pending : CreateShotOk(m, i)
    \/ \E d \in TimeSteps : ~isPlaying /\ Advance(d)
    \/ currentTime = 0 /\ ~isPlaying /\ togglePlay
    \/ \E d \in TimeSteps : NextFrame(d)

\* Frames keep being delivered as long as a callback is pending.
SpecRun == InitClock /\ [][NextRun]_vars /\ WF_vars(\E d \in TimeSteps : NextFrame(d))

\* ------------------------------------------------------------------------
\* Properties of the compiled layout
\* ------------------------------------------------------------------------

\* Adjacent items of a compiled list meet, the first starts at 0 and the
\* start times never decrease.
Monotonic(list) ==
    /\ Len(list) > 0 => list[1].start_time = 0
    /\ \A i \in 1..(Len(list) - 1) :
          /\ list[i].end_time = list[i + 1].start_time
          /\ list[i].start_time <= list[i + 1].start_time

\* C1: the items every compilation produces are laid end to end: each item
\* ends where the next starts, the first starts at 0, and start_time never
\* decreases along the output.  (A beat whose duration_seconds is negative
\* keeps it, so the item after it starts before it: see C12.)
C1_MonotonicLayout ==
    \A m \in Mounts : load[m].compiled => Monotonic(load[m].newItems)

\* The snapshot a load read from the store holds a timeline item.
HoldsTimelineItem(shots) == \E i \in 1..Len(shots) : Has(shots[i], "track_type")

\* The store records created for the load of mount m.
CreatedBy(m) == {r \in store : r.id[1] = "shot" /\ r.id[2] = m}

\* C2: a load that finds at least one timeline item in the store compiles
\* nothing and sends no createShot: it ends with the items it read, and the
\* store holds no record created for it.
C2_FillIfEmpty ==
    \A m \in Mounts :
        (load[m].pc \notin {"idle", "getShots"} /\ HoldsTimelineItem(load[m].shots)) =>
            /\ load[m].pc = "done"
            /\ ~load[m].compiled
            /\ load[m].newItems = <<>>
            /\ load[m].pending = {}
            /\ CreatedBy(m) = {}

\* A second load found the saved layout, took it from the store and left the
\* store as the first load had left it.
C2_Witness ==
    /\ mounted = 2
    /\ load[2].pc = "done"
    /\ HoldsTimelineItem(load[2].shots)
    /\ items = SavedItems(1)
    /\ {r.id : r \in store} = {StoreId(1, i) : i \in 1..Len(load[1].newItems)}

\* C3 (as stated): once a layout has been compiled and saved, no later load
\* compiles again, whatever was deleted in between.
C3_NeverRecompiled ==
    \A m \in Mounts : load[m].afterSave => ~load[m].compiled

\* C3 (amended): after a layout has been compiled and saved, a later load
\* compiles again only when the store it read held no timeline item at all
\* (every saved item had been deleted); while one saved item remains nothing
\* is derived from the script again.
C3_RecompiledOnlyWhenEmpty ==
    \A m \in Mounts :
        (load[m].afterSave /\ load[m].compiled) => ~HoldsTimelineItem(load[m].shots)

\* Every item of the saved layout was deleted, and the next load compiled the
\* script again.
C3_Witness ==
    /\ load[1].compiled /\ load[1].pc = "done" /\ layoutSaved
    /\ load[2].afterSave /\ load[2].compiled
    /\ load[2].newItems = load[1].newItems
    /\ load[2].newItems # <<>>

\* ------------------------------------------------------------------------
\* Properties of the playback clock
\* ------------------------------------------------------------------------

C5_StoppedClockFrozen ==
    [][(~isPlaying /\ animate) => currentTime' = currentTime]_vars

\* The largest end time among the items.
LargestEnd(list) == SeqMax([i \in 1..Len(list) |-> list[i].end_time])

StartOf(item) == IF Has(item, "start_time") THEN item.start_time ELSE 0

DurationOf(item) == IF Has(item, "duration") THEN item.duration ELSE 0

\* The place of list[j] when the list is read by ascending start_time, equal
\* starts in list order.
Rank(list, j) ==
    1 + Cardinality({i \in 1..Len(list) :
                        \/ StartOf(list[i]) < StartOf(list[j])
                        \/ StartOf(list[i]) = StartOf(list[j]) /\ i < j})

InAscendingOrder(list) ==
    [k \in 1..Len(list) |-> list[CHOOSE j \in 1..Len(list) : Rank(list, j) = k]]

\* The three decimal digits of k.
ThreeDigits(k) ==
    <<DigitChar[((k \div 100) % 10) + 1], DigitChar[((k \div 10) % 10) + 1],
      DigitChar[(k % 10) + 1]>>

\* The number a field of two or more decimal digits stands for.
RECURSIVE FieldValue(_)
FieldValue(chars) ==
    IF chars = <<>> THEN 0
    ELSE 10 * FieldValue(SubSeq(chars, 1, Len(chars) - 1))
         + (CHOOSE d \in 0..9 : DigitChar[d + 1] = chars[Len(chars)])

\* tc is HH:MM:SS:FF for ms milliseconds at 24 frames a second, cut to the frame.
Encodes(tc, ms) ==
    /\ Len(tc) = 11
    /\ tc[3] = ":" /\ tc[6] = ":" /\ tc[9] = ":"
    /\ \A i \in {1, 2, 4, 5, 7, 8, 10, 11} : \E d \in 1..10 : DigitChar[d] = tc[i]
    /\ FieldValue(SubSeq(tc, 1, 2)) * 3600 + FieldValue(SubSeq(tc, 4, 5)) * 60
          + FieldValue(SubSeq(tc, 7, 8)) = ms \div 1000
    /\ FieldValue(SubSeq(tc, 10, 11)) = ((ms % 1000) * 24) \div 1000

\* C7: an export of n > 0 items writes exactly n numbered clip records and no
\* placeholder; an export of an empty timeline writes exactly the one
\* placeholder record, commented EMPTY TIMELINE.
C7_RecordCount ==
    download # <<>> =>
        LET recs == download[1].records
        IN  IF Len(exported) > 0
            THEN /\ Len(recs) = Len(exported)
                 /\ \A k \in 1..Len(recs) :
                       /\ recs[k].comment[1] = "* FROM CLIP NAME: "
                       /\ FieldValue(recs[k].num) \in 1..Len(exported)
            ELSE /\ Len(recs) = 1
                 /\ recs[1].comment = <<"* EMPTY TIMELINE">>
                 /\ recs[1].num = ThreeDigits(1)

\* A compiled timeline of at least two items was exported.
C7_Witness ==
    /\ download # <<>>
    /\ Len(exported) >= 2
    /\ exported = items
    /\ Len(download[1].records) = Len(exported)

\* Record rec was written for item.
RecordOf(rec, item) ==
    /\ rec.recIn = formatTimecode(StartOf(item))
    /\ rec.srcOut = formatTimecode(DurationOf(item))
    /\ rec.comment[2] = IF Has(item, "label") /\ item.label # <<>> THEN item.label
                        ELSE Untitled
    /\ rec.trackCode = IF Has(item, "track_type")
                          /\ item.track_type \in {"audio", "music", "sfx"}
                       THEN "A" ELSE "V"

ExportedSorted ==
    (download # <<>> /\ exported # <<>>) =>
        LET recs == download[1].records
            asc == InAscendingOrder(exported)
        IN  /\ Len(recs) = Len(asc)
            /\ \A k \in 1..Len(recs) :
                  /\ recs[k].num = ThreeDigits(k)
                  /\ RecordOf(recs[k], asc[k])
            /\ \A k \in 1..(Len(asc) - 1) : StartOf(asc[k]) <= StartOf(asc[k + 1])

\* C8: the records of an export are the items in ascending start_time order,
\* whatever the order of the list, numbered 001, 002, ... in that order; the
\* list of the view is still the list the export read, in the order the load
\* set it (nothing but the export touches a loaded list here).
C8_SortedCopy ==
    /\ ExportedSorted
    /\ exported # <<>> => (items = exported /\ items = SavedItems(mounted))

\* A list that was not in start_time order was exported.
C8_Witness ==
    /\ download # <<>>
    /\ exported = items
    /\ \E k \in 1..(Len(exported) - 1) : StartOf(exported[k]) > StartOf(exported[k + 1])
    /\ InAscendingOrder(exported) # exported

\* field is what the codec writes for ms, and reads back as ms cut to the
\* frame when ms is not negative.
Timecoded(field, ms) ==
    /\ field = formatTimecode(ms)
    /\ ms >= 0 => Encodes(field, ms)

\* C9: the record of an item has source in 0 and source out its duration,
\* record in its start_time and record out start_time + duration, each
\* written by the timecode codec at 24 frames a second.
C9_RecordTimes ==
    (download # <<>> /\ exported # <<>>) =>
        LET recs == download[1].records
            asc == InAscendingOrder(exported)
        IN  /\ Len(recs) = Len(asc)
            /\ \A k \in 1..Len(recs) :
                  /\ Timecoded(recs[k].srcIn, 0)
                  /\ Timecoded(recs[k].srcOut, DurationOf(asc[k]))
                  /\ Timecoded(recs[k].recIn, StartOf(asc[k]))
                  /\ Timecoded(recs[k].recOut, StartOf(asc[k]) + DurationOf(asc[k]))

\* An export with an item that starts after 0 and lasts a fraction of a
\* second more than whole seconds.
C9_Witness ==
    /\ download # <<>>
    /\ \E k \in 1..Len(exported) :
          /\ StartOf(exported[k]) > 0
          /\ DurationOf(exported[k]) % MsPerSecond # 0
          /\ \E r \in 1..Len(download[1].records) :
                /\ RecordOf(download[1].records[r], exported[k])
                /\ SubSeq(download[1].records[r].srcOut, 10, 11) # <<"0", "0">>

\* The compiled items of the scenario script (a 10 s voice_over beat, then a
\* 20 s archive beat, no recorded voice-over) were exported.
ScenarioExported ==
    /\ Len(scripts) = 1
    /\ Has(scripts[1], "parts")
    /\ scripts[1].parts = ScenarioScript.parts
    /\ load[1].pc = "done"
    /\ load[1].shots = <<>>
    /\ items = SavedItems(1)
    /\ download # <<>>
    /\ exported = items

\* "HH:MM:SS:FF" as the sequence of its characters.
Tc(h, m, s, f) ==
    <<DigitChar[(h \div 10) + 1], DigitChar[(h % 10) + 1], ":",
      DigitChar[(m \div 10) + 1], DigitChar[(m % 10) + 1], ":",
      DigitChar[(s \div 10) + 1], DigitChar[(s % 10) + 1], ":",
      DigitChar[(f \div 10) + 1], DigitChar[(f % 10) + 1]>>

\* C10 (as stated): the export of the scenario has two records, the second
\* with record in 00:00:00:10 and record out 00:00:00:20.
C10_ScenarioAsStated ==
    ScenarioExported =>
        /\ Len(download[1].records) = 2
        /\ download[1].records[2].recIn = Tc(0, 0, 0, 10)
        /\ download[1].records[2].recOut = Tc(0, 0, 0, 20)

\* C10 (amended): the export of the scenario has two records; the second, for
\* the archive beat, has record in 00:00:10:00 (10 s, where the first beat
\* ends) and record out 00:00:30:00 (10 s + 20 s).
C10_ScenarioRecords ==
    ScenarioExported =>
        /\ Len(download[1].records) = 2
        /\ download[1].records[1].recIn = Tc(0, 0, 0, 0)
        /\ download[1].records[1].recOut = Tc(0, 0, 10, 0)
        /\ download[1].records[2].recIn = Tc(0, 0, 10, 0)
        /\ download[1].records[2].recOut = Tc(0, 0, 30, 0)
        /\ download[1].records[2].num = ThreeDigits(2)
        /\ download[1].records[2].trackCode = "V"

\* The scenario was compiled, saved and exported: two items, the second the
\* archive clip.
C10_Witness ==
    /\ ScenarioExported
    /\ Len(items) = 2
    /\ items[2].source_type = "archive_clip"

\* C11: the record of an item carries track code A exactly when the item's
\* track_type is audio, music or sfx, and V for every other track_type
\* (video, expert, graphics, or a value outside the six tracks).
C11_TrackCode ==
    (download # <<>> /\ exported # <<>>) =>
        LET recs == download[1].records
            asc == InAscendingOrder(exported)
        IN  /\ Len(recs) = Len(asc)
            /\ \A k \in 1..Len(recs) :
                  /\ recs[k].trackCode \in {"A", "V"}
                  /\ recs[k].trackCode = "A" <=>
                        (Has(asc[k], "track_type")
                            /\ asc[k].track_type \in {"audio", "music", "sfx"})

\* An export of an sfx item and an item of an unexpected track type.
C11_Witness ==
    /\ download # <<>>
    /\ Len(exported) = 2
    /\ exported[1].track_type = "overlay"
    /\ exported[2].track_type = "sfx"
    /\ download[1].records[2].trackCode # download[1].records[1].trackCode

\* The beats of the script a load compiles, in traversal order.
CompiledBeats == BeatsInOrder(LatestScript(scripts))

\* C12: the item of a beat whose duration_seconds is missing, zero or
\* negative has duration 15 s, and the item of a beat with a positive
\* duration_seconds has exactly that duration.  (A negative duration_seconds
\* is kept: `||` replaces only a missing or zero one.)
C12_DefaultDuration ==
    \A m \in Mounts :
        load[m].compiled =>
            /\ Len(load[m].newItems) >= Len(CompiledBeats)
            /\ \A i \in 1..Len(CompiledBeats) :
                  load[m].newItems[i].duration =
                      IF Has(CompiledBeats[i], "duration_seconds")
                            /\ CompiledBeats[i].duration_seconds > 0
                      THEN CompiledBeats[i].duration_seconds
                      ELSE 15 * MsPerSecond

\* C13: every compiled item has duration > 0, start_time >= 0, end_time >= 0
\* and end_time = start_time + duration.  (The item of a beat with a negative
\* duration_seconds has that negative duration and a negative end_time: see
\* C12.)
C13_ItemWellFormed ==
    \A m \in Mounts :
        \A i \in 1..Len(load[m].newItems) :
            LET item == load[m].newItems[i]
            IN  /\ item.duration > 0
                /\ item.start_time >= 0
                /\ item.end_time >= 0
                /\ item.end_time = item.start_time + item.duration

\* ------------------------------------------------------------------------
\* Properties of the classifier
\* ------------------------------------------------------------------------

\* The type written in lower case, in upper case, capitalised, and with the
\* case of every letter changed.
CaseVariants(type) ==
    { [i \in 1..Len(type) |-> ToLowerChar(type[i])],
      [i \in 1..Len(type) |-> ToUpperChar(type[i])],
      [i \in 1..Len(type) |-> IF i = 1 THEN ToUpperChar(type[i]) ELSE ToLowerChar(type[i])],
      [i \in 1..Len(type) |-> IF ToLowerChar(type[i]) = type[i] THEN ToUpperChar(type[i])
                              ELSE ToLowerChar(type[i])] }

ArchiveSynonyms ==
    { <<"b", "-", "r", "o", "l", "l">>, <<"b", "_", "r", "o", "l", "l">>,
      <<"b", "r", "o", "l", "l">>, <<"a", "r", "c", "h", "i", "v", "a", "l">>,
      <<"f", "o", "o", "t", "a", "g", "e">> }

\* C14: the track and the source a beat is classified to do not change when
\* the case of the letters of its type changes, and b-roll, b_roll, broll,
\* archival and footage, in any case, are classified to the video track and
\* the archive_clip source (so B-ROLL, broll and b_roll agree).
C14_CaseInsensitive ==
    \A m \in Mounts :
        (load[m].compiled /\ Has(CompiledBeats[1], "type")) =>
            LET item == load[m].newItems[1]
                type == CompiledBeats[1].type
            IN  /\ \A v \in CaseVariants(type) :
                      /\ beatToTrackType([type |-> v]) = item.track_type
                      /\ beatToSourceType([type |-> v]) = item.source_type
                /\ (\E w \in ArchiveSynonyms : type \in CaseVariants(w)) =>
                      (item.track_type = "video" /\ item.source_type = "archive_clip")

\* A beat of type INTERVIEW was compiled to the expert track.
C14_Witness ==
    /\ load[1].compiled
    /\ Has(CompiledBeats[1], "type")
    /\ CompiledBeats[1].type = <<"I", "N", "T", "E", "R", "V", "I", "E", "W">>
    /\ load[1].newItems[1].track_type = "expert"
    /\ load[1].newItems[1].source_type = "expert_interview"

\* The words the classifier knows, in lower case.
RecognizedWords ==
    VoiceOverWords \union ExpertWords \union ArchiveWords \union GraphicsWords

Unrecognized(beat) ==
    ~Has(beat, "type") \/ [i \in 1..Len(beat.type) |-> ToLowerChar(beat.type[i])]
                              \notin RecognizedWords

\* C15: a beat whose type is not recognized (an unknown word, the empty
\* string, no type at all) is classified to the video track and the
\* archive_clip source, and neither such a beat nor a beat without a duration
\* stops the beat after it from being compiled: both beats have their item.
C15_TotalClassification ==
    \A m \in Mounts :
        load[m].compiled =>
            LET first == load[m].newItems[1]
            IN  /\ Len(load[m].newItems) = Len(CompiledBeats)
                /\ \A i \in 1..Len(CompiledBeats) :
                      load[m].newItems[i].source_id = CompiledBeats[i].id
                /\ first.track_type \in {"audio", "expert", "video", "graphics"}
                /\ Unrecognized(CompiledBeats[1]) =>
                      (first.track_type = "video" /\ first.source_type = "archive_clip")
                /\ load[m].newItems[2].track_type = "audio"
                /\ load[m].newItems[2].start_time = first.end_time

\* A beat without type and without duration was compiled, and the beat after
\* it too.
C15_Witness ==
    /\ load[1].compiled
    /\ ~Has(CompiledBeats[1], "type")
    /\ ~Has(CompiledBeats[1], "duration_seconds")
    /\ Len(load[1].newItems) = 2
    /\ load[1].newItems[1].track_type = "video"
    /\ load[1].newItems[2].source_id = 2

\* ------------------------------------------------------------------------
\* Properties of the timecode codec
\* ------------------------------------------------------------------------

\* timecodeToSeconds: HH * 3600 + MM * 60 + SS seconds and FF frames of 1/24 s.
timecodeToSeconds(tc) ==
    Frames((FieldValue(SubSeq(tc, 1, 2)) * 3600 + FieldValue(SubSeq(tc, 4, 5)) * 60
               + FieldValue(SubSeq(tc, 7, 8))) * FramesPerSecond
           + FieldValue(SubSeq(tc, 10, 11)))

\* The codec was given a whole number of frames in [0, 86400 s).
FrameAligned ==
    /\ codecArg.per = FramesPerSecond
    /\ 0 <= codecArg.n
    /\ codecArg.n < 86400 * FramesPerSecond

\* C16: decoding the timecode of a time that is a whole number of 1/24 s
\* frames in [0, 86400 s) gives that time back.  (The frame field is
\* floor((seconds % 1) * 24) in double precision: for 1 s + 2 frames the
\* product is 1.9999999999999982 and the field is 01.)
C16_RoundTrip ==
    (codecResult # <<>> /\ FrameAligned) => timecodeToSeconds(codecResult[1]) = codecArg

\* The codec was given a time in [0, 86400 s).
WithinDay(x) == 0 <= x.n /\ x.n < 86400 * x.per

\* x is a shorter time than y, both counted in the common unit of the two
\* grids (1/3000 s).
Shorter(x, y) ==
    LET common == 125 * FramesPerSecond
    IN  x.n * (common \div x.per) < y.n * (common \div y.per)

\* The fields HH:MM:SS:FF of a time of n units, per of them to the second.
FieldsOf(x) ==
    LET whole == x.n \div x.per
    IN  [ hh |-> whole \div 3600,
          mm |-> (whole % 3600) \div 60,
          ss |-> whole % 60,
          ff |-> ((x.n % x.per) * FramesPerSecond) \div x.per ]

\* tc is two digits, colon, two digits, colon, two digits, colon, two digits.
TwoDigitFields(tc) ==
    /\ Len(tc) = 11
    /\ \A i \in {3, 6, 9} : tc[i] = ":"
    /\ \A i \in {1, 2, 4, 5, 7, 8, 10, 11} : \E d \in 1..10 : tc[i] = DigitChar[d]

\* C17: the timecode of a time in [0, 86400 s) is HH:MM:SS:FF, every field
\* two digits wide, with HH = floor(seconds / 3600), MM = floor((seconds mod
\* 3600) / 60) < 60, SS = floor(seconds mod 60) < 60 and FF = floor(fraction
\* * 24) < 24, and no shorter time has a larger timecode.  (The frame field
\* of a whole number of frames is computed in double precision and can be
\* one less than the number of frames: see C16.)
C17_FieldFormulas ==
    (codecResult # <<>> /\ WithinDay(codecArg)) =>
        LET tc == codecResult[1]
            fields == FieldsOf(codecArg)
        IN  /\ TwoDigitFields(tc)
            /\ FieldValue(SubSeq(tc, 1, 2)) = fields.hh
            /\ FieldValue(SubSeq(tc, 4, 5)) = fields.mm
            /\ FieldValue(SubSeq(tc, 7, 8)) = fields.ss
            /\ FieldValue(SubSeq(tc, 10, 11)) = fields.ff
            /\ fields.mm < 60 /\ fields.ss < 60 /\ fields.ff < FramesPerSecond
            /\ \A x \in CodecArgs :
                  (WithinDay(x) /\ Shorter(x, codecArg)) =>
                      timecodeToSeconds(formatTimecodeOf(x)).n <= timecodeToSeconds(tc).n

\* C18: the codec rejects a negative number of seconds: a call with one
\* returns no timecode string.  (formatTimecode has no check of its argument
\* and throws nothing: it formats the negative fields, "-1:-1:-5:00" for -5.)
C18_RejectsNegative ==
    codecArg.n < 0 => codecResult = <<>>

\* ------------------------------------------------------------------------
\* Properties of the error handling of loadTimeline
\* ------------------------------------------------------------------------

\* C19: a compilation for a project that already has saved timeline items is
\* reported as an error: a load that compiled while the store held a
\* timeline item ends in its error handler.  (The store is read once, before
\* the scripts are fetched; a load that read it empty compiles and saves
\* whatever another load has saved since, and reports nothing.)
C19_AlreadyCompiledReported ==
    \A m \in Mounts :
        (load[m].pc = "done" /\ load[m].compiled /\ load[m].onPopulated) =>
            load[m].rejected

\* C20: a failed createShot does not take the compiled layout away from the
\* view: once the load of the mounted view has compiled and a save of it has
\* failed, the item list holds every compiled item and an export of it has
\* one record per compiled item.  (Promise.all rejects, the catch block runs
\* and setItems is never called: the list stays empty.)
C20_LayoutKeptOnSaveFailure ==
    \A m \in Mounts :
        (mounted = m /\ load[m].pc = "done" /\ load[m].compiled /\ load[m].rejected) =>
            /\ Len(items) = Len(load[m].newItems)
            /\ \A i \in 1..Len(items) :
                  /\ StartOf(items[i]) = StartOf(load[m].newItems[i])
                  /\ DurationOf(items[i]) = DurationOf(load[m].newItems[i])
            /\ Len(EdlRecords(items)) = Len(load[m].newItems)
            /\ \A k \in 1..Len(EdlRecords(items)) :
                  EdlRecords(items)[k].comment[1] = "* FROM CLIP NAME: "

\* ------------------------------------------------------------------------
\* Export of empty and malformed lists
\* ------------------------------------------------------------------------

\* C21: exportEDL produces a document for every item list.  An empty list
\* gives the one placeholder record marked EMPTY TIMELINE; otherwise there is
\* one record per item, an item without label is written as Untitled, an
\* item without start_time is placed and timed as if it started at 0, and an
\* item without duration as if it lasted 0.
C21_ExportNeverFails ==
    download # <<>> =>
        LET recs == download[1].records
            asc == InAscendingOrder(exported)
        IN  IF exported = <<>>
            THEN recs = <<EmptyRecord>>
            ELSE /\ Len(recs) = Len(exported)
                 /\ \A k \in 1..Len(recs) :
                       /\ recs[k].num = ThreeDigits(k)
                       /\ recs[k].comment =
                             <<"* FROM CLIP NAME: ",
                               IF Has(asc[k], "label") /\ asc[k].label # <<>>
                               THEN asc[k].label ELSE Untitled>>
                       /\ Timecoded(recs[k].srcOut,
                                    IF Has(asc[k], "duration") THEN asc[k].duration ELSE 0)
                       /\ Timecoded(recs[k].recIn,
                                    IF Has(asc[k], "start_time") THEN asc[k].start_time ELSE 0)
                       /\ Timecoded(recs[k].recOut,
                                    (IF Has(asc[k], "start_time") THEN asc[k].start_time ELSE 0)
                                      + (IF Has(asc[k], "duration") THEN asc[k].duration ELSE 0))

\* An export of two items, the first written one without start_time and
\* without label, the second without duration.
C21_Witness ==
    /\ download # <<>>
    /\ Len(exported) = 2
    /\ \E a, b \in 1..2 :
          /\ ~Has(exported[a], "start_time") /\ ~Has(exported[a], "label")
          /\ Has(exported[b], "start_time") /\ ~Has(exported[b], "duration")
          /\ download[1].records[1].comment[2] = Untitled
          /\ download[1].records[1].recIn = ZeroTimecode
          /\ download[1].records[2].srcOut = ZeroTimecode
          /\ download[1].records[2].recOut = download[1].records[2].recIn

\* ------------------------------------------------------------------------
\* Properties of skip and play
\* ------------------------------------------------------------------------

\* x clamped into [lo, hi].
Clamped(x, lo, hi) == IF x < lo THEN lo ELSE IF x > hi THEN hi ELSE x

\* C22: a skip is a seek to elapsed + 10 s: in either clock state the elapsed
\* time becomes elapsed + 10 s clamped into [0, total duration], the total
\* duration being the limit of the current timeline; a stopped clock keeps
\* its anchor, and a running clock is anchored anew at now - target, so that
\* a frame at the wall time w computes target + (w - now).
C22_SkipIsSeek ==
    [][skipForward =>
          LET target == Clamped(currentTime + 10 * MsPerSecond, 0, maxDuration(items))
          IN  /\ currentTime' = target
              /\ isPlaying' = isPlaying
              /\ ~isPlaying => startTimeRef' = startTimeRef
              /\ isPlaying =>
                    /\ startTimeRef' = now - target
                    /\ \A d \in TimeSteps : (now + d) - startTimeRef' = target + d]_vars

\* The running clock was at 50 s when skip was pressed, and the frame 50 s
\* of wall time later showed 110 s.
C22_Witness ==
    /\ skips = 1
    /\ isPlaying
    /\ now = 100 * MsPerSecond
    /\ startTimeRef = -10 * MsPerSecond
    /\ currentTime = 110 * MsPerSecond

\* C23 (as stated): play on a stopped clock with elapsed time e anchors it at
\* now - e and starts it, the elapsed time staying e; and every frame of the
\* running clock, the one at the instant of the play included, shows a time
\* that is not before the time shown and not past the anchor's wall time
\* (e plus the wall time since the play).
C23_PlayResumes ==
    [][/\ (~isPlaying /\ togglePlay) =>
              /\ isPlaying'
              /\ startTimeRef' = now - currentTime
              /\ currentTime' = currentTime
       /\ (isPlaying /\ animate) =>
              /\ currentTime <= currentTime'
              /\ currentTime' <= now - startTimeRef]_vars

\* ------------------------------------------------------------------------
\* Properties of the traversal and of the voice-over pass
\* ------------------------------------------------------------------------

\* The script of the largest version (the inputs have one).
CurrentScript ==
    CHOOSE sc \in {scripts[i] : i \in 1..Len(scripts)} :
        \A i \in 1..Len(scripts) :
            (IF Has(scripts[i], "version") THEN scripts[i].version ELSE 0)
                <= (IF Has(sc, "version") THEN sc.version ELSE 0)

\* The beats of script sc, part by part and scene by scene; the inputs number
\* the beats of the current script 1, 2, ... in stored order.
BeatSet(sc) ==
    LET parts == IF Has(sc, "parts") THEN sc.parts ELSE <<>>
        scenesOf(part) == IF Has(part, "scenes") THEN part.scenes ELSE <<>>
        beatsOf(scene) == IF Has(scene, "beats") THEN scene.beats ELSE <<>>
    IN  UNION { UNION { {beatsOf(scenesOf(parts[i])[j])[k] :
                            k \in 1..Len(beatsOf(scenesOf(parts[i])[j]))} :
                        j \in 1..Len(scenesOf(parts[i])) } :
                i \in 1..Len(parts) }

BeatNumbered(sc, i) == CHOOSE b \in BeatSet(sc) : b.id = i

\* The duration a beat stands for: its duration_seconds, 15 s when it has
\* none or 0.
StatedDuration(beat) ==
    IF Has(beat, "duration_seconds") /\ beat.duration_seconds # 0
    THEN beat.duration_seconds ELSE DefaultDuration * MsPerSecond

RECURSIVE DurationsBefore(_, _)
DurationsBefore(sc, i) ==
    IF i <= 1 THEN 0
    ELSE DurationsBefore(sc, i - 1) + StatedDuration(BeatNumbered(sc, i - 1))

\* C24: the compiler emits exactly one item per beat, in the stored order of
\* the beats (part by part, scene by scene within a part, beat by beat
\* within a scene): the i-th item has the i-th beat's id as source_id, track
\* index 0 and as start_time the sum of the durations of the beats before it;
\* the only other items are those of the recorded voice-overs, after them.
C24_DepthFirstOnePerBeat ==
    \A m \in Mounts :
        load[m].compiled =>
            LET n == Cardinality(BeatSet(CurrentScript))
                out == load[m].newItems
            IN  /\ Len(out) = n + Len(VoShots(load[m].shots))
                /\ \A i \in 1..n :
                      /\ out[i].source_id = i
                      /\ out[i].track_index = 0
                      /\ out[i].start_time = DurationsBefore(CurrentScript, i)
                /\ \A i \in (n + 1)..Len(out) : out[i].source_type = "voice_over"

\* A script of two parts of one beat each was compiled: the item of the
\* second part's beat comes second and starts where the first ends.
C24_Witness ==
    /\ load[1].compiled
    /\ Len(scripts) = 1
    /\ Has(scripts[1], "parts")
    /\ Len(scripts[1].parts) = 2
    /\ \A i \in 1..2 : /\ Has(scripts[1].parts[i], "scenes")
                        /\ Len(scripts[1].parts[i].scenes) = 1
                        /\ Has(scripts[1].parts[i].scenes[1], "beats")
                        /\ Len(scripts[1].parts[i].scenes[1].beats) = 1
    /\ Len(load[1].newItems) = 2
    /\ load[1].newItems[1].source_id = scripts[1].parts[1].scenes[1].beats[1].id
    /\ load[1].newItems[2].source_id = scripts[1].parts[2].scenes[1].beats[1].id
    /\ load[1].newItems[2].start_time = load[1].newItems[1].duration
    /\ load[1].newItems[2].start_time > 0

\* The voice-over records of the recording step a load read.
Recorded(shots) ==
    {i \in 1..Len(shots) : /\ Has(shots[i], "source_type")
                            /\ shots[i].source_type = "voice_over"
                            /\ ~Has(shots[i], "track_type")}

\* C25: the items of the recorded voice-overs come after every item of the
\* main pass, on the audio track; the first starts where the last main-pass
\* item ends (at 0 when the script has no beat) and each next one where the
\* one before it ends; the main-pass items have the start, duration and end
\* the script alone gives them.
C25_VoiceOverAppended ==
    \A m \in Mounts :
        load[m].compiled =>
            LET n == Cardinality(BeatSet(CurrentScript))
                out == load[m].newItems
            IN  /\ Len(out) = n + Cardinality(Recorded(load[m].shots))
                /\ \A i \in 1..Min2(n, Len(out)) :
                      /\ out[i].source_id = i
                      /\ out[i].start_time = DurationsBefore(CurrentScript, i)
                      /\ out[i].duration = StatedDuration(BeatNumbered(CurrentScript, i))
                      /\ out[i].end_time = out[i].start_time + out[i].duration
                /\ \A j \in (n + 1)..Len(out) :
                      /\ out[j].track_type = "audio"
                      /\ out[j].source_type = "voice_over"
                      /\ \E k \in Recorded(load[m].shots) : out[j].source_id = load[m].shots[k].id
                      /\ out[j].start_time = IF j = 1 THEN 0 ELSE out[j - 1].end_time
                      /\ out[j].end_time = out[j].start_time + out[j].duration

\* Two recorded voice-overs were appended to the items of a script with
\* beats: the first starts at the end of the last main-pass item, after 0.
C25_Witness ==
    /\ load[1].compiled
    /\ Cardinality(Recorded(load[1].shots)) = 2
    /\ LET n == Cardinality(BeatSet(CurrentScript))
           out == load[1].newItems
       IN  /\ n >= 1
           /\ Len(out) = n + 2
           /\ out[n + 1].start_time = out[n].end_time
           /\ out[n + 1].start_time > 0
           /\ out[n + 2].start_time = out[n + 1].end_time

\* ------------------------------------------------------------------------
\* Properties of concurrent and failing loads
\* ------------------------------------------------------------------------

\* The saved timeline items made from the beat or voice-over numbered src.
SavedFrom(src) == {r \in store : Has(r, "track_type") /\ r.source_id = src}

\* C26: however two loads of the same project interleave, the store holds at
\* most one timeline item per script beat.  (Each load checks the store once,
\* before it fetches the scripts; two loads that both read it empty both
\* compile and both save.)
C26_OneItemPerBeat ==
    \A r \in store : Has(r, "track_type") => Cardinality(SavedFrom(r.source_id)) <= 1

\* C27: saving a layout is all or nothing across loads: once a load that met
\* no failure of its own has ended, with nothing else running, the store
\* holds no timeline item or an item for every beat of the script.  (A load
\* takes any saved timeline item as the whole layout: the items saved before
\* a createShot failed stay the layout, and the others are never made.)
C27_AllOrNothing ==
    (/\ Settled
     /\ load[mounted].pc = "done"
     /\ ~load[mounted].rejected
     /\ load[mounted].compiled \/ HoldsTimelineItem(load[mounted].shots)) =>
        \/ \A r \in store : ~Has(r, "track_type")
        \/ \A b \in BeatSet(CurrentScript) : SavedFrom(b.id) # {}

\* ------------------------------------------------------------------------
\* Properties of the frame callbacks
\* ------------------------------------------------------------------------

\* C28: at most one animate callback is pending at any time, whatever the
\* presses of play, pause, rewind and skip and the frames between them.
\* (The rewind button stops the clock without cancelling its callback; the
\* next play schedules a second one, and a pause cancels only the newest.)
C28_OnePendingFrame ==
    Len(rafQueue) <= 1

\* C29: a running clock that keeps getting frames, with no pause, rewind or
\* skip, comes to a stop with the elapsed time equal to the total duration
\* of the timeline and no callback pending.  (animate stops at the
\* maxDuration of the render that scheduled it: when the items arrive after
\* play was pressed, that is the 300 s of the empty timeline.)
C29_RunningClockEnds ==
    isPlaying ~> (~isPlaying /\ currentTime = maxDuration(items) /\ rafQueue = <<>>)

\* ------------------------------------------------------------------------
\* Properties of the remove button
\* ------------------------------------------------------------------------

\* list without its k-th element.
Dropped(list, k) == SubSeq(list, 1, k - 1) \o SubSeq(list, k + 1, Len(list))

\* C30: the remove button takes exactly the item it belongs to out of the
\* item list and leaves every other item as it was and where it was (no
\* field of it changes and the order is kept); the answer of deleteShot,
\* success or failure, changes nothing in the list.
C30_DeleteRemovesOne ==
    [][/\ \A k \in 1..Len(items) : DeleteItem(k) => items' = Dropped(items, k)
       /\ \A sid \in pendingDeletes :
             (DeleteShotOk(sid) \/ DeleteShotFails(sid)) => items' = items]_vars

\* The first of two saved items was removed and deleteShot failed: the list
\* holds the second item alone, as it was saved, and the store still both.
C30_Witness ==
    /\ load[1].pc = "done"
    /\ Len(load[1].newItems) = 2
    /\ items = <<SavedItems(1)[2]>>
    /\ items[1].start_time > 0
    /\ pendingDeletes = {}
    /\ failures = 1
    /\ {r.id : r \in store} = {StoreId(1, 1), StoreId(1, 2)}

====
